---- MODULE Spec2Model ----
(***************************************************************************)
(* Model of the authentication core of the COK Mall Spring backend:        *)
(* RegisterUseCase, LoginUseCase, AuthController, the User entity, the     *)
(* UserRepository, the bean-validated request DTOs, the                    *)
(* GlobalExceptionHandler, JwtService, JwtAuthenticationFilter and the      *)
(* authorization rules of SecurityConfig.                                   *)
(*                                                                         *)
(* Spec runs the requests one after another, SpecConc on concurrent         *)
(* threads; SpecPw applies the password checks to bounded strings, SpecJwt  *)
(* issues, reads and presents tokens as time passes, SpecHandler answers    *)
(* thrown exceptions, SpecStored runs Login and the repository updates on   *)
(* tables that hold stored accounts.                                        *)
(*                                                                         *)
(* Strings are sequences of one-character strings so that the regular      *)
(* expressions of the code can be evaluated character by character.        *)
(***************************************************************************)
EXTENDS Integers, Sequences, FiniteSets, TLC

VARIABLES
    users,          \* the users table: id -> row (User entity)
    nextId,         \* next value of the IDENTITY column users.id
    secretKeyBytes, \* length in bytes of the configured jwt.secret
    req,            \* the last HTTP request (operation, body)
    resp,           \* the HTTP response to the last request
    cause,          \* what the server-side log line of the last request names
    pre,            \* history: users and run as they were before the last request
    run,            \* history: consecutive non-matching-password Logins per email
    completed,      \* history: emails whose Register returned both tokens
    pw,             \* password under test (specification SpecPw)
    verdict,        \* result of the password checks on pw (SpecPw)
    clock,          \* the system time in milliseconds, new Date().getTime() (SpecJwt)
    jwt,            \* the token last issued by JwtService (SpecJwt)
    exchange,       \* the last use of a token or request to the filter chain (SpecJwt)
    thrown,         \* the exception a controller has thrown (SpecHandler)
    tx,             \* the open transaction of each request thread (SpecConc)
    failures        \* history: the last wrong-password Login answered since the
                    \* counter was reset, and the Logins it ran beside (SpecConc)

vars == <<users, nextId, secretKeyBytes, req, resp, cause, pre, run, completed,
          pw, verdict, clock, jwt, exchange, thrown, tx, failures>>

\* the variables of the authentication flow, of the password checks, of the token
\* service and filter chain, of the exception handler and of the transactions
authVars == <<users, nextId, secretKeyBytes, req, resp, cause, pre, run, completed>>
pwVars == <<pw, verdict>>
jwtVars == <<clock, jwt, exchange>>

-----------------------------------------------------------------------------
(* Bounds of the model *)

\* number of INSERTs into users the model lets happen (rolled back ones included)
MaxId == 3

\* the run counters stop counting here
MaxRun == 6

\* longest password built in SpecPw
MaxPwLen == 8

\* request threads that run concurrently in SpecConc
NumThreads == 2

(* Program constants *)

\* User.incrementFailedAttempts: if (this.failedLoginAttempts >= 5)
LockThreshold == 5

\* {8,} of PASSWORD_PATTERN and of RegisterRequest's @Pattern
PatternMinLen == 8

\* @Size(min = 8) on RegisterRequest.password and LoginRequest.password
SizeMin == 8

\* AuthToken.expiresIn / AuthResponse.expiresIn default
ExpiresIn == 900

\* "Strong secret key (min 256 bits)": Keys.hmacShaKeyFor rejects shorter keys
MinKeyBits == 256

-----------------------------------------------------------------------------
(* Characters: representatives of the classes the regular expressions name *)

LowerChars == {"a", "b", "c", "d", "e", "f", "g", "h", "o"}
UpperChars == {"A", "B"}
DigitChars == {"1", "2"}
\* [@$!%*?&]
SpecialChars == {"@", "$", "!", "%", "*", "?", "&"}
LetterChars == LowerChars \cup UpperChars

AllIn(s, S) == \A i \in 1..Len(s) : s[i] \in S
SomeIn(s, S) == \E i \in 1..Len(s) : s[i] \in S

\* s[from..to], empty when from > to
Sub(s, from, to) == IF from > to THEN <<>> ELSE SubSeq(s, from, to)

(* The strings the model sends in requests *)

\* a@b.co and A@b.co are well formed and differ in letter case only; a@b passes
\* @Email and fails EMAIL_PATTERN; ab.co fails both
Emails == {"a@b.co", "A@b.co", "a@b", "ab.co"}

\* Abcdef1@ and Bbcdef2! conform to the policy; abcdefgh has the length only;
\* Ab1@ is too short
Passwords == {"Abcdef1@", "Bbcdef2!", "abcdefgh", "Ab1@"}

\* the characters of the strings above
CharTable ==
    [s \in Emails \cup Passwords |->
        CASE s = "a@b.co" -> <<"a", "@", "b", ".", "c", "o">>
          [] s = "A@b.co" -> <<"A", "@", "b", ".", "c", "o">>
          [] s = "a@b" -> <<"a", "@", "b">>
          [] s = "ab.co" -> <<"a", "b", ".", "c", "o">>
          [] s = "Abcdef1@" -> <<"A", "b", "c", "d", "e", "f", "1", "@">>
          [] s = "Bbcdef2!" -> <<"B", "b", "c", "d", "e", "f", "2", "!">>
          [] s = "abcdefgh" -> <<"a", "b", "c", "d", "e", "f", "g", "h">>
          [] s = "Ab1@" -> <<"A", "b", "1", "@">>]

\* the characters of a string
Chars(s) == CharTable[s]

-----------------------------------------------------------------------------
(* Password policy *)

\* the character class [A-Za-z\d@$!%*?&] of the password pattern
PasswordChars == LetterChars \cup DigitChars \cup SpecialChars

\* RegisterUseCase.PASSWORD_PATTERN, a full match of
\* ^(?=.*[a-z])(?=.*[A-Z])(?=.*\d)(?=.*[@$!%*?&])[A-Za-z\d@$!%*?&]{8,}$
PASSWORD_PATTERN(p) ==
    /\ SomeIn(p, LowerChars)
    /\ SomeIn(p, UpperChars)
    /\ SomeIn(p, DigitChars)
    /\ SomeIn(p, SpecialChars)
    /\ AllIn(p, PasswordChars)
    /\ Len(p) >= PatternMinLen

\* @NotBlank: at least one character that is not white space
NotBlank(s) == \E i \in 1..Len(s) : s[i] # " "

\* @Size(min = 8)
SizeOk(s) == Len(s) >= SizeMin

\* the constraints of RegisterRequest.password that p violates (their messages)
RegisterPasswordViolations(p) ==
    (IF NotBlank(p) THEN {} ELSE {"Password is required"})
    \cup (IF SizeOk(p) THEN {} ELSE {"Password must be at least 8 characters"})
    \cup (IF PASSWORD_PATTERN(p) THEN {}
          ELSE {"Password must contain uppercase, lowercase, digit, and special character"})

\* the constraints of LoginRequest.password that p violates
LoginPasswordViolations(p) ==
    (IF NotBlank(p) THEN {} ELSE {"Password is required"})
    \cup (IF SizeOk(p) THEN {} ELSE {"Password must be at least 8 characters"})

-----------------------------------------------------------------------------
(* Email syntax *)

\* [A-Za-z0-9+_.-]
EmailLocalChars == LetterChars \cup DigitChars \cup {"+", "_", ".", "-"}
\* [A-Za-z0-9.-]
EmailDomainChars == LetterChars \cup DigitChars \cup {".", "-"}

\* RegisterUseCase.EMAIL_PATTERN, a full match of
\* ^[A-Za-z0-9+_.-]+@[A-Za-z0-9.-]+\.[A-Za-z]{2,}$
\* (i is the place of the @, j the place of the dot before the final letters)
EMAIL_PATTERN(e) ==
    \E i \in 2..Len(e) :
        /\ e[i] = "@"
        /\ AllIn(Sub(e, 1, i - 1), EmailLocalChars)
        /\ \E j \in (i + 2)..(Len(e) - 2) :
            /\ e[j] = "."
            /\ AllIn(Sub(e, i + 1, j - 1), EmailDomainChars)
            /\ AllIn(Sub(e, j + 1, Len(e)), LetterChars)

\* characters of an atom of the local part and of a domain label for @Email
AtomChars == LetterChars \cup DigitChars
                \cup {"!", "#", "$", "%", "&", "*", "+", "/", "=", "?", "^", "_", "-"}
LabelChars == LetterChars \cup DigitChars \cup {"-"}

\* dot-separated, non-empty parts s over the characters S
DotSeparated(s, S) ==
    /\ Len(s) >= 1
    /\ s[1] # "."
    /\ s[Len(s)] # "."
    /\ \A i \in 1..Len(s) : s[i] \in S \cup {"."}
    /\ \A i \in 1..(Len(s) - 1) : ~(s[i] = "." /\ s[i + 1] = ".")

\* @Email (Bean Validation, Hibernate Validator): the empty string passes; else the
\* value is split at its last @ into a local part of dot-separated atoms and a
\* domain of dot-separated labels. No top-level domain is required.
EmailConstraint(e) ==
    \/ Len(e) = 0
    \/ \E i \in 1..Len(e) :
        /\ e[i] = "@"
        /\ \A k \in (i + 1)..Len(e) : e[k] # "@"
        /\ DotSeparated(Sub(e, 1, i - 1), AtomChars)
        /\ DotSeparated(Sub(e, i + 1, Len(e)), LabelChars)

\* the constraints of RegisterRequest.email / LoginRequest.email that e violates
EmailViolations(e) ==
    (IF NotBlank(e) THEN {} ELSE {"Email is required"})
    \cup (IF EmailConstraint(e) THEN {} ELSE {"Invalid email format"})

\* @Valid RegisterRequest: no constraint violated
ValidRegisterRequest(e, p) ==
    EmailViolations(Chars(e)) = {} /\ RegisterPasswordViolations(Chars(p)) = {}

\* @Valid LoginRequest: no constraint violated
ValidLoginRequest(e, p) ==
    EmailViolations(Chars(e)) = {} /\ LoginPasswordViolations(Chars(p)) = {}

\* GlobalExceptionHandler.handleValidationErrors fills a HashMap field -> message
\* from the binding result; of several violations of one field the one put last
\* stays, and the order of the binding result is not fixed: every such map.
ErrorMaps(emailViol, pwViol) ==
    LET fields == (IF emailViol = {} THEN {} ELSE {"email"})
                    \cup (IF pwViol = {} THEN {} ELSE {"password"})
    IN {m \in [fields -> emailViol \cup pwViol] :
            \A f \in fields : m[f] \in (IF f = "email" THEN emailViol ELSE pwViol)}

-----------------------------------------------------------------------------
(* User entity and UserRepository *)

\* BCryptPasswordEncoder(12).encode: a one-way value that names the password only
\* to matches (the salt is not modelled: no operation of the program reads it)
encode(p) == [alg |-> "bcrypt", of |-> p]

\* PasswordEncoder.matches(raw, hash)
matches(raw, hash) == hash = encode(raw)

\* mutant of NewUser: the builder sets the role ADMIN
NewUser_admin(id, e, hash) ==
    [id |-> id, email |-> e, passwordHash |-> hash, role |-> "ADMIN",
     failedLoginAttempts |-> 0, accountLocked |-> FALSE]

\* mutant of NewUser: the builder default of failedLoginAttempts is the threshold
NewUser_atThreshold(id, e, hash) ==
    [id |-> id, email |-> e, passwordHash |-> hash, role |-> "USER",
     failedLoginAttempts |-> LockThreshold, accountLocked |-> FALSE]

\* User.builder() ... .build() in RegisterUseCase.execute, with the id the
\* IDENTITY column gives it on save
NewUser(id, e, hash) ==
    [id |-> id, email |-> e, passwordHash |-> hash, role |-> "USER",
     failedLoginAttempts |-> 0, accountLocked |-> FALSE]

\* User.incrementFailedAttempts
incrementFailedAttempts(u) ==
    LET n == u.failedLoginAttempts + 1
    IN [u EXCEPT !.failedLoginAttempts = n,
                 !.accountLocked = IF n >= LockThreshold THEN TRUE ELSE @]

\* mutant of resetFailedAttempts: the counter is left as it is
resetFailedAttempts_unlockOnly(u) == [u EXCEPT !.accountLocked = FALSE]

\* User.resetFailedAttempts
resetFailedAttempts(u) ==
    [u EXCEPT !.failedLoginAttempts = 0, !.accountLocked = FALSE]

\* UserRepository.findByEmail: the ids of the rows with this email (Optional)
findByEmail(db, e) == {id \in DOMAIN db : db[id].email = e}

\* UserRepository.existsByEmail
existsByEmail(db, e) == findByEmail(db, e) # {}

\* JpaRepository.save: insert or update the row of u.id
save(db, u) ==
    [id \in DOMAIN db \cup {u.id} |-> IF id = u.id THEN u ELSE db[id]]

\* mutant of lockAccount: the UPDATE has no WHERE clause
lockAccount_everyRow(db, userId) ==
    [id \in DOMAIN db |-> [db[id] EXCEPT !.accountLocked = TRUE]]

\* UserRepository.lockAccount: UPDATE User u SET u.accountLocked = true WHERE u.id = :userId
lockAccount(db, userId) ==
    [id \in DOMAIN db |->
        IF id = userId THEN [db[id] EXCEPT !.accountLocked = TRUE] ELSE db[id]]

\* UserRepository.unlockAccount:
\* UPDATE User u SET u.accountLocked = false, u.failedLoginAttempts = 0 WHERE u.id = :userId
unlockAccount(db, userId) ==
    [id \in DOMAIN db |->
        IF id = userId
        THEN [db[id] EXCEPT !.accountLocked = FALSE, !.failedLoginAttempts = 0]
        ELSE db[id]]

-----------------------------------------------------------------------------
(* JwtService: the claims of the tokens *)

\* JwtService.getSigningKey: Keys.hmacShaKeyFor throws WeakKeyException (a
\* RuntimeException) for a secret of fewer than 256 bits
SigningKeyOk(keyBytes) == keyBytes * 8 >= MinKeyBits

\* JwtService.generateAccessToken: claims userId, email, role, type; subject email
generateAccessToken(userId, e, role) ==
    [sub |-> e, userId |-> userId, email |-> e, role |-> role, type |-> "access"]

\* JwtService.generateRefreshToken: claims userId, email, type; subject email
generateRefreshToken(userId, e) ==
    [sub |-> e, userId |-> userId, email |-> e, type |-> "refresh"]

\* AuthToken.builder().accessToken(..).refreshToken(..).build()
AuthToken(access, refresh) ==
    [accessToken |-> access, refreshToken |-> refresh, tokenType |-> "Bearer",
     expiresIn |-> ExpiresIn]

NoToken == [tokenType |-> "none"]

-----------------------------------------------------------------------------
(* JwtService: signed tokens, their expiry and the reading of their claims *)

\* a JWT NumericDate (iat, exp) counts seconds, a java.util.Date milliseconds
MillisPerSecond == 1000

\* jwt.access-token-expiry and jwt.refresh-token-expiry, in milliseconds
AccessTokenExpiry == 2000
RefreshTokenExpiry == 4000

\* the configured jwt.secret and a key that is not the server's
ServerKey == "jwt.secret"
OtherKey == "another secret"

\* Java values of a number claim: a Long, an Integer
JavaLong(n) == [class |-> "Long", value |-> n]
JavaInteger(n) == [class |-> "Integer", value |-> n]

\* the JSON form of a number claim, and the Java value the parser's JSON reader
\* makes of it: an Integer when it fits 32 bits, a Long otherwise
IntegerMax == (2^30 - 1) + 2^30
ToJson(v) == v.value
FromJson(n) ==
    IF n >= -IntegerMax - 1 /\ n <= IntegerMax THEN JavaInteger(n) ELSE JavaLong(n)

\* Claims.get(name, Long.class): an Integer or Long value as a Long
GetAsLong(v) == JavaLong(v.value)

\* what a claims resolver returns: a value or null
Value(v) == [threw |-> "none", isNull |-> FALSE, value |-> v]
Null == [threw |-> "none", isNull |-> TRUE]

\* JwtService.createToken on the claims and subject that generateAccessToken or
\* generateRefreshToken give it: iat and exp as NumericDates (whole seconds) and
\* the HS256 signature under the key. The random jti is left out: no
\* operation reads it.
createToken(claims, expiryMillis, now, key) ==
    [kind |-> "jws",
     payload |-> [c \in DOMAIN claims \cup {"iat", "exp"} |->
                    IF c = "iat" THEN now \div MillisPerSecond
                    ELSE IF c = "exp" THEN (now + expiryMillis) \div MillisPerSecond
                    ELSE IF c = "userId" THEN ToJson(claims[c])
                    ELSE claims[c]],
     signature |-> key]

\* a string that is not a JWT
MalformedToken == [kind |-> "garbage"]

\* JwtService.extractAllClaims: the parser rejects what is not a JWS, then a
\* signature that the server key does not verify, then a token whose exp is
\* before its clock (now.after(exp), no clock skew allowed)
extractAllClaims(token, now, key) ==
    IF token.kind # "jws"
    THEN [threw |-> "UnauthorizedException", message |-> "Invalid token format"]
    ELSE IF token.signature # key
    THEN [threw |-> "UnauthorizedException", message |-> "Invalid token signature"]
    ELSE IF now > token.payload.exp * MillisPerSecond
    THEN [threw |-> "UnauthorizedException", message |-> "Token has expired"]
    ELSE [threw |-> "none", claims |-> token.payload]

\* JwtService.extractClaim with the resolvers of extractEmail, extractUserId,
\* extractRole, extractTokenType and extractExpiration (a Date, in milliseconds)
extractClaim(token, now, key, resolver) ==
    LET parsed == extractAllClaims(token, now, key)
        c == parsed.claims
        get(name) == IF name \in DOMAIN c THEN Value(c[name]) ELSE Null
    IN IF parsed.threw # "none" THEN parsed
       ELSE CASE resolver = "subject" -> get("sub")
              [] resolver = "userId" ->
                    IF "userId" \in DOMAIN c
                    THEN Value(GetAsLong(FromJson(c.userId))) ELSE Null
              [] resolver = "role" -> get("role")
              [] resolver = "type" -> get("type")
              [] resolver = "expiration" -> Value(c.exp * MillisPerSecond)

extractEmail(token, now, key) == extractClaim(token, now, key, "subject")
\* mutant of extractUserId: the claim is read as it was parsed, not as a Long
extractUserId_asParsed(token, now, key) ==
    LET parsed == extractAllClaims(token, now, key)
    IN IF parsed.threw # "none" THEN parsed
       ELSE Value(FromJson(parsed.claims.userId))

extractUserId(token, now, key) == extractClaim(token, now, key, "userId")
extractRole(token, now, key) == extractClaim(token, now, key, "role")
extractTokenType(token, now, key) == extractClaim(token, now, key, "type")
extractExpiration(token, now, key) == extractClaim(token, now, key, "expiration")

\* JwtService.isTokenExpired: extractExpiration(token).before(new Date())
isTokenExpired(token, now, key) ==
    LET exp == extractExpiration(token, now, key)
    IN IF exp.threw # "none" THEN exp
       ELSE Value(exp.value < now)

\* JwtService.validateToken(token): !isTokenExpired(token), false on any exception
validateToken(token, now, key) ==
    LET expired == isTokenExpired(token, now, key)
    IN IF expired.threw # "none" THEN FALSE ELSE ~expired.value

-----------------------------------------------------------------------------
(* The use cases. Each returns what it did: the table as the persistence   *)
(* context holds it when the method ends, the exception thrown ("none" when *)
(* it returned), the exception's message, the cause its log line names and  *)
(* the AuthToken returned.                                                  *)

Threw(db, exception, message, why) ==
    [db |-> db, threw |-> exception, message |-> message, cause |-> why,
     token |-> NoToken]

Returned(db, token) ==
    [db |-> db, threw |-> "none", message |-> "", cause |-> "ok", token |-> token]

\* mutant of MsgUserNotFound: the message names the cause
MsgUserNotFound_specific == "User not found"

\* LoginUseCase.execute, line 81
MsgUserNotFound == "Invalid email or password"
\* LoginUseCase.execute, lines 87-88
MsgAccountLocked ==
    "Account is locked due to too many failed login attempts. Please contact support."
\* mutant of MsgBadPassword: the message names the cause
MsgBadPassword_specific == "Incorrect password"

\* LoginUseCase.execute, line 101
MsgBadPassword == "Invalid email or password"

\* mutant of LoginUseCase_execute: the password is verified before the lock is
\* looked at
LoginUseCase_execute_passwordFirst(db, request, keyOk) ==
    LET found == findByEmail(db, request.email)
    IN IF found = {}
       THEN Threw(db, "UnauthorizedException", MsgUserNotFound, "notFound")
       ELSE LET user == db[CHOOSE id \in found : TRUE]
            IN IF ~matches(request.password, user.passwordHash)
               THEN Threw(save(db, incrementFailedAttempts(user)),
                          "UnauthorizedException", MsgBadPassword, "badPassword")
               ELSE IF user.accountLocked
               THEN Threw(db, "UnauthorizedException", MsgAccountLocked, "locked")
               ELSE LET u == resetFailedAttempts(user)
                        db2 == save(db, u)
                    IN IF ~keyOk
                       THEN Threw(db2, "WeakKeyException", "weak key", "jwt")
                       ELSE Returned(db2,
                                AuthToken(generateAccessToken(u.id, u.email, u.role),
                                          generateRefreshToken(u.id, u.email)))

\* LoginUseCase.execute(request)
LoginUseCase_execute(db, request, keyOk) ==
    LET found == findByEmail(db, request.email)
    IN IF found = {}
       THEN Threw(db, "UnauthorizedException", MsgUserNotFound, "notFound")
       ELSE LET user == db[CHOOSE id \in found : TRUE]
            IN IF user.accountLocked
               THEN Threw(db, "UnauthorizedException", MsgAccountLocked, "locked")
               ELSE IF ~matches(request.password, user.passwordHash)
               THEN Threw(save(db, incrementFailedAttempts(user)),
                          "UnauthorizedException", MsgBadPassword, "badPassword")
               ELSE LET u == resetFailedAttempts(user)
                        db2 == save(db, u)
                    IN IF ~keyOk
                       THEN Threw(db2, "WeakKeyException", "weak key", "jwt")
                       ELSE Returned(db2,
                                AuthToken(generateAccessToken(u.id, u.email, u.role),
                                          generateRefreshToken(u.id, u.email)))

\* RegisterUseCase.execute, line 168
MsgEmailRegistered == "Email already registered"

\* mutant of RegisterUseCase_execute: the existsByEmail check is missing
RegisterUseCase_execute_noExistsCheck(db, id, request, keyOk) ==
    IF ~EMAIL_PATTERN(Chars(request.email))
    THEN Threw(db, "UnauthorizedException", "Invalid email format", "emailFormat")
    ELSE IF ~PASSWORD_PATTERN(Chars(request.password))
    THEN Threw(db, "UnauthorizedException",
               "Password must be at least 8 characters and contain uppercase, lowercase, digit, and special character",
               "weakPassword")
    ELSE LET user == NewUser(id, request.email, encode(request.password))
             db2 == save(db, user)
         IN IF ~keyOk
            THEN Threw(db2, "WeakKeyException", "weak key", "jwt")
            ELSE Returned(db2,
                    AuthToken(generateAccessToken(user.id, user.email, user.role),
                              generateRefreshToken(user.id, user.email)))

\* RegisterUseCase.execute(request); id is the value the IDENTITY column gives
RegisterUseCase_execute(db, id, request, keyOk) ==
    IF ~EMAIL_PATTERN(Chars(request.email))
    THEN Threw(db, "UnauthorizedException", "Invalid email format", "emailFormat")
    ELSE IF ~PASSWORD_PATTERN(Chars(request.password))
    THEN Threw(db, "UnauthorizedException",
               "Password must be at least 8 characters and contain uppercase, lowercase, digit, and special character",
               "weakPassword")
    ELSE IF existsByEmail(db, request.email)
    THEN Threw(db, "UnauthorizedException", MsgEmailRegistered, "emailExists")
    ELSE LET user == NewUser(id, request.email, encode(request.password))
             db2 == save(db, user)
         IN IF ~keyOk
            THEN Threw(db2, "WeakKeyException", "weak key", "jwt")
            ELSE Returned(db2,
                    AuthToken(generateAccessToken(user.id, user.email, user.role),
                              generateRefreshToken(user.id, user.email)))

\* whether RegisterUseCase.execute reaches userRepository.save (an INSERT)
RegisterInserts(db, request) ==
    /\ EMAIL_PATTERN(Chars(request.email))
    /\ PASSWORD_PATTERN(Chars(request.password))
    /\ ~existsByEmail(db, request.email)

\* mutant of Transactional: the writes stay when the method throws
Transactional_commitOnThrow(before, out) == out.db

\* @Transactional on execute: the method's writes are committed when it returns
\* and rolled back when it throws a RuntimeException (UnauthorizedException and
\* WeakKeyException are RuntimeExceptions)
Transactional(before, out) ==
    IF out.threw # "none" THEN before ELSE out.db

\* mutant of UniqueIndexViolated: the users table has no unique index on email
UniqueIndexViolated_noIndex(db, u) == FALSE

\* the unique index idx_email of the users table: an INSERT of u is refused when
\* a committed row holds the same email (DataIntegrityViolationException)
UniqueIndexViolated(db, u) == \E id \in DOMAIN db : db[id].email = u.email

\* RegisterUseCase.execute from passwordEncoder.encode on (lines 172-195), for a
\* request that has passed the existsByEmail check, against the table as it is
\* when the INSERT is executed
RegisterUseCase_execute_save(db, id, request, keyOk) ==
    LET user == NewUser(id, request.email, encode(request.password))
    IN IF UniqueIndexViolated(db, user)
       THEN Threw(db, "DataIntegrityViolationException",
                  "duplicate key value violates unique constraint idx_email",
                  "uniqueIndex")
       ELSE IF ~keyOk
       THEN Threw(save(db, user), "WeakKeyException", "weak key", "jwt")
       ELSE Returned(save(db, user),
                AuthToken(generateAccessToken(user.id, user.email, user.role),
                          generateRefreshToken(user.id, user.email)))

\* mutant of Flush: every entity of the persistence context is written back
Flush_everyEntity(db, loaded, context) ==
    [id \in DOMAIN db |-> IF id \in DOMAIN context THEN context[id] ELSE db[id]]

\* the flush at commit: an UPDATE of all columns for each entity of the
\* persistence context that differs from the state it was loaded with
Flush(db, loaded, context) ==
    [id \in DOMAIN db |->
        IF id \in DOMAIN context /\ context[id] # loaded[id]
        THEN context[id] ELSE db[id]]

-----------------------------------------------------------------------------
(* GlobalExceptionHandler and AuthController: the HTTP responses *)

NoData == [kind |-> "none"]

\* mutant of handleUnauthorized: the status is 403
handleUnauthorized_forbidden(message) ==
    [status |-> 403, success |-> FALSE, message |-> message, data |-> NoData,
     correlationId |-> TRUE]

\* GlobalExceptionHandler.handleUnauthorized
handleUnauthorized(message) ==
    [status |-> 401, success |-> FALSE, message |-> message, data |-> NoData,
     correlationId |-> TRUE]

\* GlobalExceptionHandler.handleValidationErrors
handleValidationErrors(errors) ==
    [status |-> 400, success |-> FALSE, message |-> "Validation failed",
     data |-> [kind |-> "errors", errors |-> errors], correlationId |-> TRUE]

\* GlobalExceptionHandler.handleGenericException
handleGenericException ==
    [status |-> 500, success |-> FALSE,
     message |-> "An internal error occurred. Please contact support with correlation ID: ",
     data |-> NoData, correlationId |-> TRUE]

\* GlobalExceptionHandler.handleResourceNotFound
handleResourceNotFound(message) ==
    [status |-> 404, success |-> FALSE, message |-> message, data |-> NoData,
     correlationId |-> TRUE]

\* mutant of handleForbidden: the response carries the exception's message
handleForbidden_echo(message) ==
    [status |-> 403, success |-> FALSE, message |-> message, data |-> NoData,
     correlationId |-> TRUE]

\* GlobalExceptionHandler.handleForbidden: the message is fixed
handleForbidden(message) ==
    [status |-> 403, success |-> FALSE, message |-> "Access denied", data |-> NoData,
     correlationId |-> TRUE]

\* GlobalExceptionHandler.handleRateLimitExceeded
handleRateLimitExceeded(message) ==
    [status |-> 429, success |-> FALSE, message |-> message, data |-> NoData,
     correlationId |-> TRUE]

\* the superclass of each exception class the model throws
Superclass ==
    [c \in {"UnauthorizedException", "ForbiddenException", "AccessDeniedException",
             "ResourceNotFoundException", "RateLimitExceededException",
             "MethodArgumentNotValidException", "WeakKeyException",
             "DataIntegrityViolationException", "NullPointerException",
             "IOException", "RuntimeException"} |->
        CASE c \in {"MethodArgumentNotValidException", "IOException",
                     "RuntimeException"} -> "Exception"
          [] OTHER -> "RuntimeException"]

\* the classes that have an @ExceptionHandler method
HandledClasses ==
    {"ResourceNotFoundException", "UnauthorizedException", "ForbiddenException",
     "AccessDeniedException", "RateLimitExceededException",
     "MethodArgumentNotValidException", "Exception"}

\* the class whose @ExceptionHandler method is chosen for an exception of class
\* c: the nearest class with a handler, upwards from c
RECURSIVE HandlerClass(_)
HandlerClass(c) ==
    IF c \in HandledClasses THEN c ELSE HandlerClass(Superclass[c])

\* GlobalExceptionHandler: the response to an exception thrown by a controller
GlobalExceptionHandler(ex) ==
    LET h == HandlerClass(ex.kind)
    IN CASE h = "ResourceNotFoundException" -> handleResourceNotFound(ex.message)
         [] h = "UnauthorizedException" -> handleUnauthorized(ex.message)
         [] h \in {"ForbiddenException", "AccessDeniedException"} ->
                handleForbidden(ex.message)
         [] h = "RateLimitExceededException" -> handleRateLimitExceeded(ex.message)
         [] h = "MethodArgumentNotValidException" -> handleValidationErrors(ex.errors)
         [] h = "Exception" -> handleGenericException

\* the handler the exception of a use case is dispatched to
handleException(out) ==
    IF out.threw = "UnauthorizedException"
    THEN handleUnauthorized(out.message)
    ELSE handleGenericException

\* AuthResponse.builder() ... .role("USER").build() in AuthController
AuthResponse(token, e) ==
    [kind |-> "auth", accessToken |-> token.accessToken,
     refreshToken |-> token.refreshToken, tokenType |-> token.tokenType,
     expiresIn |-> token.expiresIn, email |-> e, role |-> "USER"]

\* ResponseEntity.ok(ApiResponse.success(message, data))
Ok(message, data) ==
    [status |-> 200, success |-> TRUE, message |-> message, data |-> data,
     correlationId |-> FALSE]

\* AuthController.register, given what the use case did
AuthController_register(request, out) ==
    IF out.threw = "none"
    THEN Ok("Registration successful", AuthResponse(out.token, request.email))
    ELSE handleException(out)

\* AuthController.login, given what the use case did
AuthController_login(request, out) ==
    IF out.threw = "none"
    THEN Ok("Login successful", AuthResponse(out.token, request.email))
    ELSE handleException(out)

-----------------------------------------------------------------------------
(* JwtAuthenticationFilter and SecurityConfig.securityFilterChain *)

\* no Authentication in the SecurityContext: the request is anonymous
Anonymous == [authenticated |-> FALSE]

\* new SimpleGrantedAuthority("ROLE_" + role); a null role gives ROLE_null
Authority(role) == IF role.isNull THEN "ROLE_null" ELSE "ROLE_" \o role.value

\* the Authorization header: absent, of another scheme, or Bearer with a token
NoHeader == [scheme |-> "none"]
BasicHeader == [scheme |-> "Basic"]
BearerHeader(token) == [scheme |-> "Bearer", token |-> token]

\* mutant of JwtAuthenticationFilter_doFilterInternal: every request is given
\* the authority ROLE_ADMIN once its token is valid
JwtAuthenticationFilter_doFilterInternal_admin(authHeader, now, key) ==
    IF authHeader.scheme # "Bearer" THEN Anonymous
    ELSE IF extractEmail(authHeader.token, now, key).threw # "none" THEN Anonymous
    ELSE IF ~validateToken(authHeader.token, now, key) THEN Anonymous
    ELSE [authenticated |-> TRUE,
          principal |-> extractEmail(authHeader.token, now, key).value,
          authorities |-> {Authority(Value("ADMIN"))}]

\* JwtAuthenticationFilter.doFilterInternal: the Authentication the filter leaves
\* in the SecurityContext before it continues the chain
JwtAuthenticationFilter_doFilterInternal(authHeader, now, key) ==
    IF authHeader.scheme # "Bearer" THEN Anonymous
    ELSE LET jwtToken == authHeader.token
             userEmail == extractEmail(jwtToken, now, key)
         IN IF userEmail.threw # "none" THEN Anonymous
            ELSE IF userEmail.isNull THEN Anonymous
            ELSE IF ~validateToken(jwtToken, now, key) THEN Anonymous
            ELSE LET role == extractRole(jwtToken, now, key)
                 IN IF role.threw # "none" THEN Anonymous
                    ELSE [authenticated |-> TRUE,
                          principal |-> userEmail.value,
                          authorities |-> {Authority(role)}]

\* whether an exception of class c is an instance of class d
RECURSIVE InstanceOf(_, _)
InstanceOf(c, d) ==
    c = d \/ (c \in DOMAIN Superclass /\ InstanceOf(Superclass[c], d))

\* mutant of Caught: the try block of the filter has no catch clause
Caught_nothing(c) == FALSE

\* the catch clauses of JwtAuthenticationFilter.doFilterInternal:
\* catch (UnauthorizedException e) and catch (Exception e)
Caught(c) == InstanceOf(c, "UnauthorizedException") \/ InstanceOf(c, "Exception")

\* the exception the try block of doFilterInternal ends with ("none" when it
\* runs to its end): of extractEmail, then, for a token that validates in an
\* empty SecurityContext, of extractUserId and of extractRole
TryBlockThrows(context, authHeader, now, key) ==
    LET jwtToken == authHeader.token
        userEmail == extractEmail(jwtToken, now, key)
    IN IF userEmail.threw # "none" THEN userEmail.threw
       ELSE IF userEmail.isNull \/ context.authenticated THEN "none"
       ELSE IF ~validateToken(jwtToken, now, key) THEN "none"
       ELSE IF extractUserId(jwtToken, now, key).threw # "none"
       THEN extractUserId(jwtToken, now, key).threw
       ELSE extractRole(jwtToken, now, key).threw

\* JwtAuthenticationFilter.doFilterInternal on a request whose SecurityContext
\* holds context: the Authentication in the SecurityContext when the method
\* ends, the number of times it has called filterChain.doFilter and the
\* exception it ends with
doFilterInternal(context, authHeader, now, key) ==
    IF authHeader.scheme # "Bearer"
    THEN [authentication |-> context, doFilter |-> 1, threw |-> "none"]
    ELSE LET ex == TryBlockThrows(context, authHeader, now, key)
             escaped == ex # "none" /\ ~Caught(ex)
         IN [authentication |->
                IF context.authenticated THEN context
                ELSE JwtAuthenticationFilter_doFilterInternal(authHeader, now, key),
             doFilter |-> IF escaped THEN 0 ELSE 1,
             threw |-> IF escaped THEN ex ELSE "none"]

HttpMethods == {"GET", "POST", "PUT", "DELETE"}

\* a request matcher: the methods, the path segments of the pattern, whether the
\* pattern ends in /** and the access rule
Matcher(methods, pattern, deep, rule) ==
    [methods |-> methods, pattern |-> pattern, deep |-> deep, rule |-> rule]

\* the request matchers of authorizeHttpRequests, in their order
AuthorizationRules ==
    << Matcher(HttpMethods, <<"api", "auth">>, TRUE, "permitAll"),
       Matcher({"GET"}, <<"api", "products">>, TRUE, "permitAll"),
       Matcher({"GET"}, <<"api", "settings">>, FALSE, "permitAll"),
       Matcher(HttpMethods, <<"swagger-ui">>, TRUE, "permitAll"),
       Matcher(HttpMethods, <<"v3", "api-docs">>, TRUE, "permitAll"),
       Matcher(HttpMethods, <<"api-docs">>, TRUE, "permitAll"),
       Matcher(HttpMethods, <<"actuator", "health">>, FALSE, "permitAll"),
       Matcher(HttpMethods, <<"api", "admin">>, TRUE, "hasRole ADMIN"),
       Matcher({"POST"}, <<"api", "products">>, TRUE, "hasRole ADMIN"),
       Matcher({"PUT"}, <<"api", "products">>, TRUE, "hasRole ADMIN"),
       Matcher({"DELETE"}, <<"api", "products">>, TRUE, "hasRole ADMIN"),
       Matcher({"PUT"}, <<"api", "settings">>, FALSE, "hasRole ADMIN") >>

\* whether a matcher matches the request
MatcherMatches(m, method, path) ==
    /\ method \in m.methods
    /\ IF m.deep
       THEN Len(path) >= Len(m.pattern) /\ SubSeq(path, 1, Len(m.pattern)) = m.pattern
       ELSE path = m.pattern

\* the access rule of the first matcher that matches; anyRequest().authenticated()
\* when none does
AccessRule(method, path) ==
    LET hits == {i \in DOMAIN AuthorizationRules :
                    MatcherMatches(AuthorizationRules[i], method, path)}
    IN IF hits = {} THEN "authenticated"
       ELSE AuthorizationRules[CHOOSE i \in hits : \A k \in hits : i <= k].rule

\* mutant of Granted: authenticated() lets every request through
Granted_anyRequestPermitted(rule, authentication) ==
    CASE rule = "permitAll" -> TRUE
      [] rule = "authenticated" -> TRUE
      [] rule = "hasRole ADMIN" ->
            /\ authentication.authenticated
            /\ Authority(Value("ADMIN")) \in authentication.authorities

\* the decision of the rule for the Authentication
Granted(rule, authentication) ==
    CASE rule = "permitAll" -> TRUE
      [] rule = "authenticated" -> authentication.authenticated
      [] rule = "hasRole ADMIN" ->
            /\ authentication.authenticated
            /\ Authority(Value("ADMIN")) \in authentication.authorities

\* the filter chain on a request of the REQUEST dispatch, which enters with an
\* empty SecurityContext (the sessions are stateless): the JWT filter, then the
\* authorization rules. An exception that leaves the filter is answered 500; a
\* denied request is answered 403 by the chain (the default entry point for an
\* anonymous request, the access denied handler for an authenticated one) and
\* reaches no handler.
securityFilterChain(method, path, authHeader, now, key) ==
    LET filter == doFilterInternal(Anonymous, authHeader, now, key)
        granted == Granted(AccessRule(method, path), filter.authentication)
        reached == filter.doFilter > 0 /\ granted
    IN [reached |-> reached,
        status |-> IF filter.threw # "none" THEN 500
                   ELSE IF filter.doFilter > 0 /\ ~granted THEN 403
                   ELSE 0,
        authentication |-> filter.authentication,
        doFilter |-> filter.doFilter,
        threw |-> filter.threw]

-----------------------------------------------------------------------------
(* The requests the model sends *)

\* configured jwt.secret lengths: 16 bytes (128 bits) and 32 bytes (256 bits)
SecretKeyLengths == {16, 32}

NoRequest == [op |-> "none", handled |-> FALSE, email |-> "", password |-> ""]
NoResponse ==
    [status |-> 0, success |-> FALSE, message |-> "", data |-> NoData,
     correlationId |-> FALSE]

\* history: one more non-matching Login in a run that started at a fresh account
RunAfterMismatch(n) ==
    IF n < 0 THEN n ELSE IF n >= MaxRun THEN MaxRun ELSE n + 1

\* nothing issued, nothing presented, nothing thrown, no transaction open
NoJwt == [kind |-> "none"]
NoExchange == [op |-> "none"]
NoException == [kind |-> "none", message |-> "", errors |-> <<>>]
Threads == 1..NumThreads
NoTx == [pc |-> "idle"]
NoFailure == [email |-> "", read |-> 0, pending |-> {}, raced |-> FALSE]

PwIdle == pw = <<>> /\ verdict = [checked |-> FALSE]
JwtIdle == clock = 0 /\ jwt = NoJwt /\ exchange = NoExchange
HandlerIdle == thrown = NoException
TxIdle == tx = [t \in Threads |-> NoTx] /\ failures = NoFailure

MainInit ==
    /\ users = <<>>
    /\ nextId = 1
    /\ secretKeyBytes \in SecretKeyLengths
    /\ req = NoRequest
    /\ resp = NoResponse
    /\ cause = "none"
    /\ pre = [users |-> <<>>, run |-> [e \in Emails |-> -1]]
    /\ run = [e \in Emails |-> -1]
    /\ completed = {}

Init ==
    /\ MainInit
    /\ PwIdle
    /\ JwtIdle
    /\ HandlerIdle
    /\ TxIdle

-----------------------------------------------------------------------------
(* Actions: one per HTTP request outcome and repository operation *)

\* the bodies among the model's requests that pass @Valid
ValidRegisterBodies ==
    {b \in Emails \X Passwords : ValidRegisterRequest(b[1], b[2])}
ValidLoginBodies ==
    {b \in Emails \X Passwords : ValidLoginRequest(b[1], b[2])}

\* POST /api/auth/register with a body that fails @Valid: the controller method
\* is not invoked, MethodArgumentNotValidException goes to the handler
RegisterRejected(e, p) ==
    /\ <<e, p>> \notin ValidRegisterBodies
    /\ \E m \in ErrorMaps(EmailViolations(Chars(e)), RegisterPasswordViolations(Chars(p))) :
            resp' = handleValidationErrors(m)
    /\ req' = [op |-> "register", handled |-> FALSE, email |-> e, password |-> p]
    /\ cause' = "validation"
    /\ pre' = [users |-> users, run |-> run]
    /\ UNCHANGED <<users, nextId, secretKeyBytes, run, completed, pw, verdict>>
    /\ UNCHANGED <<jwtVars, thrown, tx, failures>>

\* POST /api/auth/register with a valid body: AuthController.register calls
\* RegisterUseCase.execute in a transaction
Register(e, p) ==
    LET request == [email |-> e, password |-> p]
        out == RegisterUseCase_execute(users, nextId, request,
                                       SigningKeyOk(secretKeyBytes))
    IN /\ <<e, p>> \in ValidRegisterBodies
       /\ RegisterInserts(users, request) => nextId <= MaxId
       /\ users' = Transactional(users, out)
       /\ nextId' = IF RegisterInserts(users, request) THEN nextId + 1 ELSE nextId
       /\ resp' = AuthController_register(request, out)
       /\ req' = [op |-> "register", handled |-> TRUE, email |-> e, password |-> p]
       /\ cause' = out.cause
       /\ pre' = [users |-> users, run |-> run]
       /\ run' = IF out.threw = "none" THEN [run EXCEPT ![e] = 0] ELSE run
       /\ completed' = IF out.threw = "none" THEN completed \cup {e} ELSE completed
       /\ UNCHANGED <<secretKeyBytes, pw, verdict>>
       /\ UNCHANGED <<jwtVars, thrown, tx, failures>>

\* POST /api/auth/login with a body that fails @Valid
LoginRejected(e, p) ==
    /\ <<e, p>> \notin ValidLoginBodies
    /\ \E m \in ErrorMaps(EmailViolations(Chars(e)), LoginPasswordViolations(Chars(p))) :
            resp' = handleValidationErrors(m)
    /\ req' = [op |-> "login", handled |-> FALSE, email |-> e, password |-> p]
    /\ cause' = "validation"
    /\ pre' = [users |-> users, run |-> run]
    /\ UNCHANGED <<users, nextId, secretKeyBytes, run, completed, pw, verdict>>
    /\ UNCHANGED <<jwtVars, thrown, tx, failures>>

\* POST /api/auth/login with a valid body: AuthController.login calls
\* LoginUseCase.execute in a transaction
Login(e, p) ==
    LET request == [email |-> e, password |-> p]
        out == LoginUseCase_execute(users, request, SigningKeyOk(secretKeyBytes))
        found == findByEmail(users, e)
        mismatch == \E id \in found : ~matches(p, users[id].passwordHash)
    IN /\ <<e, p>> \in ValidLoginBodies
       /\ users' = Transactional(users, out)
       /\ resp' = AuthController_login(request, out)
       /\ req' = [op |-> "login", handled |-> TRUE, email |-> e, password |-> p]
       /\ cause' = out.cause
       /\ pre' = [users |-> users, run |-> run]
       /\ run' = IF found = {} THEN run
                 ELSE IF mismatch THEN [run EXCEPT ![e] = RunAfterMismatch(@)]
                 ELSE IF out.threw = "none" THEN [run EXCEPT ![e] = 0]
                 ELSE run
       /\ UNCHANGED <<nextId, secretKeyBytes, completed, pw, verdict>>
       /\ UNCHANGED <<jwtVars, thrown, tx, failures>>

\* UserRepository.lockAccount(userId)
LockAccount(id) ==
    /\ id \in DOMAIN users
    /\ users' = lockAccount(users, id)
    /\ req' = [op |-> "lockAccount", handled |-> TRUE, email |-> users[id].email,
               password |-> ""]
    /\ resp' = NoResponse
    /\ cause' = "none"
    /\ pre' = [users |-> users, run |-> run]
    /\ run' = [run EXCEPT ![users[id].email] = -1]
    /\ UNCHANGED <<nextId, secretKeyBytes, completed, pw, verdict>>
    /\ UNCHANGED <<jwtVars, thrown, tx, failures>>

\* UserRepository.unlockAccount(userId)
UnlockAccount(id) ==
    /\ id \in DOMAIN users
    /\ users' = unlockAccount(users, id)
    /\ req' = [op |-> "unlockAccount", handled |-> TRUE, email |-> users[id].email,
               password |-> ""]
    /\ resp' = NoResponse
    /\ cause' = "none"
    /\ pre' = [users |-> users, run |-> run]
    /\ run' = [run EXCEPT ![users[id].email] = 0]
    /\ failures' = NoFailure
    /\ UNCHANGED <<nextId, secretKeyBytes, completed, pw, verdict>>
    /\ UNCHANGED <<jwtVars, thrown, tx>>

Next ==
    \/ \E e \in Emails, p \in Passwords : RegisterRejected(e, p)
    \/ \E e \in Emails, p \in Passwords : Register(e, p)
    \/ \E e \in Emails, p \in Passwords : LoginRejected(e, p)
    \/ \E e \in Emails, p \in Passwords : Login(e, p)
    \/ \E id \in 1..MaxId : LockAccount(id)
    \/ \E id \in 1..MaxId : UnlockAccount(id)

Spec == Init /\ [][Next]_vars

-----------------------------------------------------------------------------
(* SpecPw: the password checks applied to every string over PwAlphabet of  *)
(* at most MaxPwLen characters                                              *)

\* a lower-case letter, an upper-case letter, a digit, a character of the special
\* set and a character of none of these classes
PwAlphabet == {"a", "A", "1", "@", "#"}

PwInit ==
    /\ MainInit
    /\ secretKeyBytes = 32
    /\ PwIdle
    /\ JwtIdle
    /\ HandlerIdle
    /\ TxIdle

\* type one more character
PwAppend(c) ==
    /\ Len(pw) < MaxPwLen
    /\ pw' = Append(pw, c)
    /\ verdict' = [checked |-> FALSE]
    /\ UNCHANGED <<users, nextId, secretKeyBytes, req, resp, cause, pre, run,
                   completed>>
    /\ UNCHANGED <<jwtVars, thrown, tx, failures>>

\* submit pw: the verdict of RegisterUseCase's pattern and of RegisterRequest's
\* constraints on it
PwCheck ==
    /\ ~verdict.checked
    /\ verdict' = [checked |-> TRUE,
                   useCase |-> PASSWORD_PATTERN(pw),
                   dto |-> (RegisterPasswordViolations(pw) = {})]
    /\ UNCHANGED <<users, nextId, secretKeyBytes, req, resp, cause, pre, run,
                   completed, pw>>
    /\ UNCHANGED <<jwtVars, thrown, tx, failures>>

PwNext ==
    \/ \E c \in PwAlphabet : PwAppend(c)
    \/ PwCheck

SpecPw == PwInit /\ [][PwNext]_vars

-----------------------------------------------------------------------------
(* SpecJwt: JwtService issues tokens, the clock advances, tokens are read   *)
(* back and presented to the filter chain                                   *)

\* the accounts tokens are issued to; the JSON reader returns both ids as Integers
JwtUsers ==
    { [userId |-> JavaLong(1), email |-> "a@b.co", role |-> "USER"],
      [userId |-> JavaLong(IntegerMax), email |-> "A@b.co", role |-> "ADMIN"] }

\* the instants at which tokens are issued: on a whole second and just before
\* the next
IssueTimes == {0, MillisPerSecond - 1}

\* the instants the clock takes: the issue times, and the milliseconds around the
\* end of the access token lifetime and around the exp NumericDate of each
\* access token
ClockValues ==
    IssueTimes
    \cup {t + AccessTokenExpiry + d : t \in IssueTimes, d \in {-1, 0, 1}}
    \cup {((t + AccessTokenExpiry) \div MillisPerSecond) * MillisPerSecond + d :
            t \in IssueTimes, d \in {-1, 0, 1}}

\* the paths of the model's requests, as their segments
Paths ==
    { <<"api", "auth", "login">>, <<"api", "products", "1">>, <<"api", "settings">>,
      <<"api", "settings", "theme">>, <<"actuator", "health">>,
      <<"swagger-ui", "index.html">>, <<"api", "admin", "users">>, <<"api", "cart">> }

\* what a request presents: no header, a Basic header, the issued token, the
\* issued token with a signature of another key, a string that is not a JWT
Credentials == {"none", "basic", "asIssued", "forged", "malformed"}

\* the bearer token of a credential
Presented(credential) ==
    CASE credential = "asIssued" -> jwt.token
      [] credential = "forged" -> [jwt.token EXCEPT !.signature = OtherKey]
      [] credential = "malformed" -> MalformedToken

\* the Authorization header of a credential
HeaderOf(credential) ==
    CASE credential = "none" -> NoHeader
      [] credential = "basic" -> BasicHeader
      [] OTHER -> BearerHeader(Presented(credential))

\* what the SecurityContext holds when the filter is entered: nothing, or an
\* identity that was established before
PresetIdentity ==
    [authenticated |-> TRUE, principal |-> "ab.co",
     authorities |-> {Authority(Value("USER"))}]
Contexts == {Anonymous, PresetIdentity}

JwtInit ==
    /\ MainInit
    /\ secretKeyBytes = 32
    /\ PwIdle
    /\ JwtIdle
    /\ HandlerIdle
    /\ TxIdle

\* time passes: the exchange of the earlier instant is over
Tick(t) ==
    /\ t > clock
    /\ clock' = t
    /\ exchange' = NoExchange
    /\ UNCHANGED jwt
    /\ UNCHANGED <<authVars, pwVars, thrown, tx, failures>>

\* JwtService.generateAccessToken(userId, email, role)
IssueAccess(u) ==
    /\ clock \in IssueTimes
    /\ jwt' = [kind |-> "issued", type |-> "access", userId |-> u.userId,
               email |-> u.email, role |-> u.role, issuedAt |-> clock,
               lifetime |-> AccessTokenExpiry,
               token |-> createToken(generateAccessToken(u.userId, u.email, u.role),
                                     AccessTokenExpiry, clock, ServerKey)]
    /\ exchange' = [op |-> "issue"]
    /\ UNCHANGED clock
    /\ UNCHANGED <<authVars, pwVars, thrown, tx, failures>>

\* JwtService.generateRefreshToken(userId, email)
IssueRefresh(u) ==
    /\ clock \in IssueTimes
    /\ jwt' = [kind |-> "issued", type |-> "refresh", userId |-> u.userId,
               email |-> u.email, issuedAt |-> clock,
               lifetime |-> RefreshTokenExpiry,
               token |-> createToken(generateRefreshToken(u.userId, u.email),
                                     RefreshTokenExpiry, clock, ServerKey)]
    /\ exchange' = [op |-> "issue"]
    /\ UNCHANGED clock
    /\ UNCHANGED <<authVars, pwVars, thrown, tx, failures>>

\* JwtService.validateToken and the extract methods on a presented token
Inspect(credential) ==
    LET token == Presented(credential)
    IN /\ jwt.kind = "issued"
       /\ exchange' = [op |-> "inspect", credential |-> credential,
                       valid |-> validateToken(token, clock, ServerKey),
                       userId |-> extractUserId(token, clock, ServerKey),
                       email |-> extractEmail(token, clock, ServerKey),
                       role |-> extractRole(token, clock, ServerKey),
                       type |-> extractTokenType(token, clock, ServerKey)]
       /\ UNCHANGED <<clock, jwt>>
       /\ UNCHANGED <<authVars, pwVars, thrown, tx, failures>>

\* an HTTP request goes through the security filter chain
Request(method, path, credential) ==
    /\ credential \in {"asIssued", "forged", "malformed"} => jwt.kind = "issued"
    /\ exchange' = [op |-> "request", method |-> method, path |-> path,
                    credential |-> credential,
                    result |-> securityFilterChain(method, path, HeaderOf(credential),
                                                   clock, ServerKey)]
    /\ UNCHANGED <<clock, jwt>>
    /\ UNCHANGED <<authVars, pwVars, thrown, tx, failures>>

\* JwtAuthenticationFilter.doFilterInternal on a request whose SecurityContext
\* holds context
Filter(context, credential) ==
    /\ credential \in {"asIssued", "forged", "malformed"} => jwt.kind = "issued"
    /\ exchange' = [op |-> "filter", context |-> context, credential |-> credential,
                    result |-> doFilterInternal(context, HeaderOf(credential), clock,
                                                ServerKey)]
    /\ UNCHANGED <<clock, jwt>>
    /\ UNCHANGED <<authVars, pwVars, thrown, tx, failures>>

JwtNext ==
    \/ \E t \in ClockValues : Tick(t)
    \/ \E u \in JwtUsers : IssueAccess(u)
    \/ \E u \in JwtUsers : IssueRefresh(u)
    \/ \E c \in {"asIssued", "forged", "malformed"} : Inspect(c)
    \/ \E m \in HttpMethods, p \in Paths, c \in Credentials : Request(m, p, c)
    \/ \E x \in Contexts, c \in Credentials : Filter(x, c)

SpecJwt == JwtInit /\ [][JwtNext]_vars

-----------------------------------------------------------------------------
(* SpecHandler: controllers throw exceptions, GlobalExceptionHandler answers *)

\* messages of the exceptions thrown
ExceptionMessages ==
    {"Invalid email or password", "Access denied", "Product not found with id: 7",
     "Too many requests", "duplicate key value violates unique constraint idx_email"}

\* binding results of a request body that fails @Valid: a message for some of
\* the fields
BindingErrors ==
    UNION {ErrorMaps(ev, pv) :
            ev \in SUBSET {"Email is required", "Invalid email format"},
            pv \in SUBSET {"Password is required",
                           "Password must be at least 8 characters"}}
    \ {<<>>}

\* the exceptions thrown
Exceptions ==
    {[kind |-> c, message |-> m, errors |-> <<>>] :
        c \in DOMAIN Superclass \ {"MethodArgumentNotValidException"},
        m \in ExceptionMessages}
    \cup {[kind |-> "MethodArgumentNotValidException", message |-> "Validation failed for argument [0]",
            errors |-> e] : e \in BindingErrors}

HandlerInit ==
    /\ MainInit
    /\ secretKeyBytes = 32
    /\ PwIdle
    /\ JwtIdle
    /\ HandlerIdle
    /\ TxIdle

\* a controller method throws
Throw(ex) ==
    /\ thrown' = ex
    /\ resp' = NoResponse
    /\ UNCHANGED <<users, nextId, secretKeyBytes, req, cause, pre, run, completed>>
    /\ UNCHANGED <<pwVars, jwtVars, tx, failures>>

\* the @ExceptionHandler method for the exception writes the response
Handle ==
    /\ thrown # NoException
    /\ resp = NoResponse
    /\ resp' = GlobalExceptionHandler(thrown)
    /\ UNCHANGED <<users, nextId, secretKeyBytes, req, cause, pre, run, completed>>
    /\ UNCHANGED <<pwVars, jwtVars, thrown, tx, failures>>

HandlerNext ==
    \/ \E ex \in Exceptions : Throw(ex)
    \/ Handle

SpecHandler == HandlerInit /\ [][HandlerNext]_vars

-----------------------------------------------------------------------------
(* SpecConc: Register and Login requests run on concurrent threads, each in  *)
(* its own READ COMMITTED transaction; a thread's reads and its commit are    *)
(* separate steps                                                            *)

\* the bodies of the concurrent requests, both valid: one email, two passwords
ConcBodies == {<<"a@b.co", "Abcdef1@">>, <<"a@b.co", "Bbcdef2!">>}

ConcInit ==
    /\ MainInit
    /\ secretKeyBytes = 32
    /\ PwIdle
    /\ JwtIdle
    /\ HandlerIdle
    /\ TxIdle

\* a thread answers its request and ends its transaction
Answer(t, op, request, response, why) ==
    /\ resp' = response
    /\ req' = [op |-> op, handled |-> TRUE, email |-> request.email,
               password |-> request.password]
    /\ cause' = why
    /\ pre' = [users |-> users, run |-> run]
    /\ tx' = [tx EXCEPT ![t] = NoTx]

\* a thread goes on inside its transaction
Continue(t, state) ==
    /\ tx' = [tx EXCEPT ![t] = state]
    /\ UNCHANGED <<req, resp, cause, pre>>

\* RegisterUseCase.execute up to existsByEmail (lines 149-169): a failed check
\* is answered at once, else the thread has read that the email is free
RegisterBegin(t, e, p) ==
    LET request == [email |-> e, password |-> p]
        out == RegisterUseCase_execute(users, nextId, request, TRUE)
    IN /\ tx[t] = NoTx
       /\ <<e, p>> \in ValidRegisterBodies
       /\ IF out.threw # "none"
          THEN Answer(t, "register", request, AuthController_register(request, out),
                      out.cause)
          ELSE Continue(t, [pc |-> "save", op |-> "register", request |-> request])
       /\ UNCHANGED <<users, nextId, secretKeyBytes, run, completed>>
       /\ UNCHANGED <<pwVars, jwtVars, thrown, failures>>

\* RegisterUseCase.execute from the INSERT to the commit (lines 172-195)
RegisterCommit(t) ==
    LET request == tx[t].request
        out == RegisterUseCase_execute_save(users, nextId, request,
                                            SigningKeyOk(secretKeyBytes))
    IN /\ tx[t].pc = "save"
       /\ nextId <= MaxId
       /\ users' = Transactional(users, out)
       /\ nextId' = nextId + 1
       /\ Answer(t, "register", request, AuthController_register(request, out),
                 out.cause)
       /\ completed' = IF out.threw = "none" THEN completed \cup {request.email}
                       ELSE completed
       /\ UNCHANGED <<secretKeyBytes, run>>
       /\ UNCHANGED <<pwVars, jwtVars, thrown, failures>>

\* LoginUseCase.execute up to findByEmail (lines 73-82): an unknown email is
\* answered at once, else the entity is loaded into the persistence context
LoginBegin(t, e, p) ==
    LET request == [email |-> e, password |-> p]
        found == findByEmail(users, e)
    IN /\ tx[t] = NoTx
       /\ <<e, p>> \in ValidLoginBodies
       /\ IF found = {}
          THEN LET out == LoginUseCase_execute(users, request,
                                               SigningKeyOk(secretKeyBytes))
               IN Answer(t, "login", request, AuthController_login(request, out),
                         out.cause)
          ELSE Continue(t, [pc |-> "loaded", op |-> "login", request |-> request,
                            loaded |-> [id \in found |-> users[id]]])
       /\ UNCHANGED <<users, nextId, secretKeyBytes, run, completed>>
       /\ UNCHANGED <<pwVars, jwtVars, thrown, failures>>

\* LoginUseCase.execute from the lock check to the commit (lines 84-117), on the
\* entity as it was loaded; the commit flushes the persistence context
LoginCommit(t) ==
    LET request == tx[t].request
        loaded == tx[t].loaded
        out == LoginUseCase_execute(loaded, request, SigningKeyOk(secretKeyBytes))
    IN /\ tx[t].pc = "loaded"
       /\ users' = Transactional(users, [out EXCEPT !.db = Flush(users, loaded, @)])
       /\ Answer(t, "login", request, AuthController_login(request, out), out.cause)
       /\ failures' =
            LET read == loaded[CHOOSE id \in DOMAIN loaded : TRUE].failedLoginAttempts
            IN IF out.cause = "badPassword"
               THEN [email |-> request.email,
                     read |-> read,
                     pending |-> {o \in Threads \ {t} :
                                    /\ tx[o].pc = "loaded"
                                    /\ tx[o].request.email = request.email},
                     raced |-> /\ failures.email = request.email
                               /\ t \in failures.pending
                               /\ failures.read = read]
               ELSE IF out.threw = "none" THEN NoFailure
               ELSE failures
       /\ UNCHANGED <<nextId, secretKeyBytes, run, completed>>
       /\ UNCHANGED <<pwVars, jwtVars, thrown>>

ConcNext ==
    \/ \E t \in Threads, b \in ConcBodies : RegisterBegin(t, b[1], b[2])
    \/ \E t \in Threads : RegisterCommit(t)
    \/ \E t \in Threads, b \in ConcBodies : LoginBegin(t, b[1], b[2])
    \/ \E t \in Threads : LoginCommit(t)
    \/ \E id \in 1..MaxId : LockAccount(id)
    \/ \E id \in 1..MaxId : UnlockAccount(id)

SpecConc == ConcInit /\ [][ConcNext]_vars

-----------------------------------------------------------------------------
(* SpecStored: Login, lockAccount and unlockAccount on a users table as a    *)
(* deployment holds it: an account of role USER and one of role ADMIN (no     *)
(* operation of the program makes an ADMIN, the operator stores it), each     *)
(* with any failedLoginAttempts and accountLocked the User entity allows      *)

\* the rows of one stored account: every counter from 0 to the threshold, locked
\* or not below the threshold and locked at it (User.incrementFailedAttempts)
StoredRows(id, e, p, role) ==
    {[id |-> id, email |-> e, passwordHash |-> encode(p), role |-> role,
      failedLoginAttempts |-> x[1], accountLocked |-> x[2]] :
        x \in {y \in (0..LockThreshold) \X BOOLEAN : y[1] >= LockThreshold => y[2]}}

\* the stored tables
StoredTables ==
    {<<u, a>> : u \in StoredRows(1, "a@b.co", "Abcdef1@", "USER"),
                a \in StoredRows(2, "A@b.co", "Bbcdef2!", "ADMIN")}

StoredInit ==
    /\ users \in StoredTables
    /\ nextId = 3
    /\ secretKeyBytes = 32
    /\ req = NoRequest
    /\ resp = NoResponse
    /\ cause = "none"
    /\ pre = [users |-> users, run |-> [e \in Emails |-> -1]]
    /\ run = [e \in Emails |-> -1]
    /\ completed = {}
    /\ PwIdle
    /\ JwtIdle
    /\ HandlerIdle
    /\ TxIdle

StoredNext ==
    \/ \E e \in Emails, p \in Passwords : LoginRejected(e, p)
    \/ \E e \in Emails, p \in Passwords : Login(e, p)
    \/ \E id \in 1..MaxId : LockAccount(id)
    \/ \E id \in 1..MaxId : UnlockAccount(id)

SpecStored == StoredInit /\ [][StoredNext]_vars

-----------------------------------------------------------------------------
(* Properties *)

\* the response to POST /api/auth/login with body b = <<email, password>> when
\* the table is db
LoginResponse(db, b) ==
    LET request == [email |-> b[1], password |-> b[2]]
    IN AuthController_login(request,
            LoginUseCase_execute(db, request, SigningKeyOk(secretKeyBytes)))

\* the cause LoginUseCase.execute logs for body b when the table is db
LoginCause(db, b) ==
    LoginUseCase_execute(db, [email |-> b[1], password |-> b[2]],
                         SigningKeyOk(secretKeyBytes)).cause

\* the last request was a Login that reached LoginUseCase.execute
LoginRan == req.op = "login" /\ req.handled

\* the last request was a Register that reached RegisterUseCase.execute
RegisterRan == req.op = "register" /\ req.handled

\* the last request was a Login for email e whose password did not match the
\* stored hash, in a run of such Logins that began at a fresh account
MismatchInRun(e) ==
    /\ LoginRan
    /\ req.email = e
    /\ pre.run[e] >= 0
    /\ run[e] = pre.run[e] + 1

\* C1: starting from an unlocked account with failedLoginAttempts = 0, after 4
\* consecutive wrong-password Logins the account is unlocked with
\* failedLoginAttempts = 4; after the 5th it is locked; a 6th Login, whatever its
\* password, fails with the lockout error and leaves failedLoginAttempts unchanged.
C1_LockoutThreshold ==
    \A id \in DOMAIN users :
        LET u == users[id]
            e == u.email
        IN /\ run[e] = 4 => (~u.accountLocked /\ u.failedLoginAttempts = 4)
           /\ run[e] = 5 => u.accountLocked
           /\ (LoginRan /\ req.email = e /\ pre.run[e] = 5) =>
                /\ resp.status = 401
                /\ resp.message = MsgAccountLocked
                /\ u.failedLoginAttempts = pre.users[id].failedLoginAttempts

\* C2: a Login for a locked account, with a matching or a non-matching password,
\* fails with the lockout error, is decided before the password is looked at, and
\* leaves the table (failedLoginAttempts and accountLocked included) unchanged.
C2_LockedLoginRejected ==
    LoginRan =>
        \A id \in findByEmail(pre.users, req.email) :
            pre.users[id].accountLocked =>
                /\ resp.status = 401
                /\ resp.message = MsgAccountLocked
                /\ cause = "locked"
                /\ users = pre.users

\* a Login with the matching password was answered while the account was locked
C2_Witness ==
    /\ LoginRan
    /\ \E id \in findByEmail(pre.users, req.email) :
            /\ pre.users[id].accountLocked
            /\ matches(req.password, pre.users[id].passwordHash)

\* C3: the response to a Login for an email without account and the response to a
\* Login with a wrong password for an existing unlocked account are the same
\* (status, message and the rest of the payload): whenever a Login has failed for
\* one of the two causes, every Login that would have failed for the other cause
\* in the same table gets the same response.
C3_EnumerationResistance ==
    (LoginRan /\ cause \in {"notFound", "badPassword"}) =>
        \A b \in ValidLoginBodies :
            LoginCause(pre.users, b) \in {"notFound", "badPassword"} =>
                /\ LoginResponse(pre.users, b) = resp
                /\ resp.status = 401

\* a Login for an unknown email has failed while a wrong-password Login for an
\* existing unlocked account was possible
C3_Witness ==
    /\ LoginRan
    /\ cause = "notFound"
    /\ \E b \in ValidLoginBodies : LoginCause(pre.users, b) = "badPassword"

\* C4 as claimed: every failed Login returns the same message, whatever its cause:
\* the message of the Login that has just failed is the message of every Login
\* that fails in the same table.
C4_SameMessageForEveryCause ==
    (LoginRan /\ ~resp.success) =>
        \A b \in ValidLoginBodies :
            ~LoginResponse(pre.users, b).success =>
                LoginResponse(pre.users, b).message = resp.message

\* C4 as amended: a failed Login returns the lockout message when the account
\* exists and is locked, and otherwise (email not found, wrong password) one and
\* the same message, which does not tell whether the account exists.
C4_MessageByLockOnly ==
    (LoginRan /\ ~resp.success) =>
        /\ resp.message =
             IF \E id \in findByEmail(pre.users, req.email) : pre.users[id].accountLocked
             THEN MsgAccountLocked
             ELSE "Invalid email or password"
        /\ \A b \in ValidLoginBodies :
             (cause # "locked" /\ LoginCause(pre.users, b) \in {"notFound", "badPassword"})
                => LoginResponse(pre.users, b).message = resp.message

\* a Login has failed on a locked account while another cause of failure existed
C4_Witness ==
    /\ LoginRan
    /\ cause = "locked"
    /\ \E b \in ValidLoginBodies : LoginCause(pre.users, b) = "notFound"

\* C5 as claimed: in a run of 5 consecutive wrong-password Logins against a fresh
\* account the first 4 responses are 401 with the generic message and the 5th is
\* 401 with the account-locked message.
C5_FifthResponseLocked ==
    \A e \in Emails :
        (MismatchInRun(e) /\ run[e] \in 1..5) =>
            /\ resp.status = 401
            /\ run[e] <= 4 => resp.message = "Invalid email or password"
            /\ run[e] = 5 => resp.message = MsgAccountLocked

\* C5 as amended: in a run of 5 consecutive wrong-password Logins against a fresh
\* account all 5 responses are 401 with the generic invalid-credentials message.
C5_FiveGenericResponses ==
    \A e \in Emails :
        (MismatchInRun(e) /\ run[e] \in 1..5) =>
            /\ resp.status = 401
            /\ resp.message = "Invalid email or password"

\* the 5th wrong-password Login of such a run has been answered
C5_Witness ==
    \E e \in Emails : MismatchInRun(e) /\ run[e] = 5

\* C6: a successful Register adds exactly one account, with the request's email,
\* role USER, failedLoginAttempts 0 and accountLocked false, to a table that had
\* none for this email and changes no other row; it returns an access and a
\* refresh token with the email and role "USER"; a Login with the same email and
\* password then succeeds.
C6_RegisterCreatesAccount ==
    (RegisterRan /\ resp.success) =>
        /\ EMAIL_PATTERN(Chars(req.email))
        /\ PASSWORD_PATTERN(Chars(req.password))
        /\ ~existsByEmail(pre.users, req.email)
        /\ \E id \in DOMAIN users \ DOMAIN pre.users :
            /\ DOMAIN users = DOMAIN pre.users \cup {id}
            /\ users[id].id = id
            /\ users[id].email = req.email
            /\ users[id].role = "USER"
            /\ users[id].failedLoginAttempts = 0
            /\ users[id].accountLocked = FALSE
            /\ resp.data.accessToken.userId = id
            /\ resp.data.refreshToken.userId = id
        /\ \A id \in DOMAIN pre.users : users[id] = pre.users[id]
        /\ resp.status = 200
        /\ resp.data.accessToken.type = "access"
        /\ resp.data.accessToken.email = req.email
        /\ resp.data.accessToken.role = "USER"
        /\ resp.data.refreshToken.type = "refresh"
        /\ resp.data.refreshToken.email = req.email
        /\ resp.data.email = req.email
        /\ resp.data.role = "USER"
        /\ LoginResponse(users, <<req.email, req.password>>).success
        /\ LoginResponse(users, <<req.email, req.password>>).status = 200

\* a Register has succeeded
C6_Witness ==
    /\ RegisterRan
    /\ resp.success
    /\ existsByEmail(users, req.email)

\* C7: a Register for an email that already has an account fails with 401 and
\* "Email already registered", returns no tokens and leaves the table (no new
\* account, the existing account's password hash, role, failedLoginAttempts and
\* accountLocked) unchanged.
C7_DuplicateEmailRejected ==
    (RegisterRan /\ existsByEmail(pre.users, req.email)) =>
        /\ resp.status = 401
        /\ ~resp.success
        /\ resp.message = "Email already registered"
        /\ resp.data = NoData
        /\ users = pre.users

\* a Register for an already registered email has been answered
C7_Witness ==
    /\ RegisterRan
    /\ existsByEmail(pre.users, req.email)
    /\ cause = "emailExists"

\* C8: a Register whose email is not of the local@domain.tld shape or whose
\* password violates the strength policy fails with the 400 validation error,
\* never 401, and creates no account.
C8_MalformedInputIs400 ==
    (req.op = "register"
        /\ (~EMAIL_PATTERN(Chars(req.email)) \/ ~PASSWORD_PATTERN(Chars(req.password))))
      => (resp.status = 400 /\ users = pre.users)

\* C9: Register is atomic: a Register that does not return both tokens leaves the
\* table as it was, also when token issuance fails after the account was saved,
\* so every account of the table was created by a Register that returned both
\* tokens.
C9_RegisterAtomic ==
    /\ \A id \in DOMAIN users : users[id].email \in completed
    /\ (RegisterRan /\ ~resp.success) => users = pre.users

\* token issuance has failed after the account was saved
C9_Witness ==
    /\ RegisterRan
    /\ cause = "jwt"
    /\ resp.status = 500
    /\ RegisterInserts(pre.users, [email |-> req.email, password |-> req.password])

\* the reference predicate of C10: at least 8 characters, an upper-case letter, a
\* lower-case letter, a digit and a character of the special set
ReferenceStrength(p) ==
    /\ Len(p) >= 8
    /\ SomeIn(p, UpperChars)
    /\ SomeIn(p, LowerChars)
    /\ SomeIn(p, DigitChars)
    /\ SomeIn(p, SpecialChars)

\* C10: the password check of RegisterUseCase and the one of RegisterRequest accept
\* a password exactly when it has at least 8 characters, an upper-case letter, a
\* lower-case letter, a digit and a character of the special set @$!%*?&.
C10_StrengthIsReference ==
    verdict.checked =>
        /\ verdict.useCase = ReferenceStrength(pw)
        /\ verdict.dto = ReferenceStrength(pw)

\* the lower-case form of a character
ToLowerCase(c) == IF c = "A" THEN "a" ELSE IF c = "B" THEN "b" ELSE c

\* two strings that differ at most in the case of their letters
EqualsIgnoreCase(s, t) ==
    /\ Len(Chars(s)) = Len(Chars(t))
    /\ \A i \in 1..Len(Chars(s)) : ToLowerCase(Chars(s)[i]) = ToLowerCase(Chars(t)[i])

\* the accounts of db whose email equals e up to letter case
AccountsIgnoringCase(db, e) ==
    {id \in DOMAIN db : EqualsIgnoreCase(db[id].email, e)}

\* C18: email is a case-insensitive lookup key: a Register whose email differs
\* only in letter case from a registered email is rejected as already registered
\* and writes nothing, and a Login with such an email resolves to the registered
\* account (it is not answered as an unknown email).
C18_CaseInsensitiveKey ==
    /\ (RegisterRan /\ AccountsIgnoringCase(pre.users, req.email) # {}) =>
            /\ resp.status = 401
            /\ resp.message = MsgEmailRegistered
            /\ users = pre.users
    /\ (LoginRan /\ AccountsIgnoringCase(pre.users, req.email) # {}) =>
            cause # "notFound"

\* C19: a Login with a wrong password against an existing unlocked account leaves
\* the stored failedLoginAttempts one higher than before the call, and the account
\* locked exactly when the counter has reached the threshold.
C19_FailedAttemptPersisted ==
    (LoginRan /\ cause = "badPassword") =>
        \A id \in findByEmail(pre.users, req.email) :
            /\ id \in DOMAIN users
            /\ users[id].failedLoginAttempts = pre.users[id].failedLoginAttempts + 1
            /\ users[id].accountLocked = (users[id].failedLoginAttempts >= LockThreshold)

\* the token last issued, presented as issued and strictly before its exp claim
UnexpiredToken(type) ==
    /\ jwt.kind = "issued"
    /\ jwt.type = type
    /\ clock < jwt.token.payload.exp * MillisPerSecond

\* the last exchange read back the token as it was issued
InspectedAsIssued == exchange.op = "inspect" /\ exchange.credential = "asIssued"

\* the last exchange was a request that presented the token as issued
RequestWith(credential) == exchange.op = "request" /\ exchange.credential = credential

\* the path lies under the prefix
Under(path, prefix) ==
    Len(path) >= Len(prefix) /\ SubSeq(path, 1, Len(prefix)) = prefix

\* the public set: /api/auth/**, GET /api/products/**, GET /api/settings, the
\* documentation and the health endpoint
PublicRequest(method, path) ==
    \/ Under(path, <<"api", "auth">>)
    \/ method = "GET" /\ Under(path, <<"api", "products">>)
    \/ method = "GET" /\ path = <<"api", "settings">>
    \/ Under(path, <<"swagger-ui">>) \/ Under(path, <<"v3", "api-docs">>)
    \/ Under(path, <<"api-docs">>)
    \/ path = <<"actuator", "health">>

\* the ADMIN-gated routes: /api/admin/**, POST/PUT/DELETE /api/products/**,
\* PUT /api/settings
AdminGated(method, path) ==
    \/ Under(path, <<"api", "admin">>)
    \/ method \in {"POST", "PUT", "DELETE"} /\ Under(path, <<"api", "products">>)
    \/ method = "PUT" /\ path = <<"api", "settings">>

\* C11: a correctly signed token issued at time t with lifetime L is accepted by
\* validation exactly when now < t + L: accepted at t + L - 1, rejected at t + L
\* and at every later instant.
C11_ValidExactlyBeforeExpiry ==
    InspectedAsIssued =>
        (exchange.valid <=> clock < jwt.issuedAt + jwt.lifetime)

\* C12: the access token of generateAccessToken(userId, email, role), read back
\* before its expiry, yields extractUserId = userId, extractEmail = email,
\* extractRole = role and extractTokenType = "access".
C12_ClaimRoundTrip ==
    (InspectedAsIssued /\ UnexpiredToken("access")) =>
        /\ exchange.userId = Value(jwt.userId)
        /\ exchange.email = Value(jwt.email)
        /\ exchange.role = Value(jwt.role)
        /\ exchange.type = Value("access")

\* an access token for the largest 32-bit id has been read back before its expiry
C12_Witness ==
    /\ InspectedAsIssued
    /\ UnexpiredToken("access")
    /\ jwt.userId = JavaLong(IntegerMax)
    /\ jwt.issuedAt > 0
    /\ clock > jwt.issuedAt
    /\ exchange.userId = Value(JavaLong(IntegerMax))

\* C13: a refresh token carries type "refresh" and no role claim, and a request
\* that presents a valid refresh token as its bearer credential is never granted
\* access to a protected endpoint.
C13_RefreshTokenNotACredential ==
    /\ (jwt.kind = "issued" /\ jwt.type = "refresh") =>
            /\ jwt.token.payload.type = "refresh"
            /\ "role" \notin DOMAIN jwt.token.payload
    /\ (RequestWith("asIssued") /\ UnexpiredToken("refresh")
            /\ ~PublicRequest(exchange.method, exchange.path)) =>
            ~exchange.result.reached

\* C14 as claimed: for every path outside the public set a request with no
\* Authorization header is rejected with 403 before any handler, and the same
\* request with a valid unexpired access token passes the chain (it is answered
\* by the dispatcher, not with 401 or 403).
C14_TokenOpensEveryProtectedPath ==
    (exchange.op = "request" /\ ~PublicRequest(exchange.method, exchange.path)) =>
        /\ exchange.credential = "none" =>
                ~exchange.result.reached /\ exchange.result.status = 403
        /\ (exchange.credential = "asIssued" /\ UnexpiredToken("access")) =>
                /\ exchange.result.authentication.authenticated
                /\ exchange.result.reached

\* C14 as amended: without a header the request is rejected with 403; with a
\* valid unexpired access token it is authenticated, and it passes the chain when
\* the route is not ADMIN-gated or the token's role is ADMIN.
C14_TokenOpensProtectedPathsOfItsRole ==
    (exchange.op = "request" /\ ~PublicRequest(exchange.method, exchange.path)) =>
        /\ exchange.credential = "none" =>
                ~exchange.result.reached /\ exchange.result.status = 403
        /\ (exchange.credential = "asIssued" /\ UnexpiredToken("access")) =>
                /\ exchange.result.authentication.authenticated
                /\ (~AdminGated(exchange.method, exchange.path) \/ jwt.role = "ADMIN")
                        => exchange.result.reached

\* a USER's unexpired access token has opened GET /api/cart some time after it
\* was issued
C14_Witness ==
    /\ RequestWith("asIssued")
    /\ UnexpiredToken("access")
    /\ jwt.role = "USER"
    /\ clock > jwt.issuedAt
    /\ exchange.method = "GET"
    /\ exchange.path = <<"api", "cart">>
    /\ exchange.result.reached

\* C15: a request to an ADMIN-gated route with a valid access token whose role is
\* USER is rejected with 403, and a request is admitted to such a route only when
\* it carries a valid access token whose role claim is ADMIN.
C15_AdminRoutesNeedAdminRole ==
    (exchange.op = "request" /\ AdminGated(exchange.method, exchange.path)) =>
        /\ (exchange.credential = "asIssued" /\ UnexpiredToken("access")
                /\ jwt.role = "USER") =>
                ~exchange.result.reached /\ exchange.result.status = 403
        /\ exchange.result.reached =>
                /\ exchange.credential = "asIssued"
                /\ jwt.type = "access"
                /\ jwt.role = "ADMIN"

\* a USER's unexpired access token has been refused with 403 on DELETE
\* /api/products/1
C15_Witness ==
    /\ RequestWith("asIssued")
    /\ UnexpiredToken("access")
    /\ jwt.role = "USER"
    /\ exchange.method = "DELETE"
    /\ exchange.path = <<"api", "products", "1">>
    /\ exchange.result.status = 403

\* the exception thrown last has been answered by the handler
Handled == thrown # NoException /\ resp # NoResponse

\* C16: the global handler maps each exception kind to one fixed status and
\* envelope: validation error -> 400 with the field-to-message map,
\* UnauthorizedException -> 401, ForbiddenException / AccessDeniedException ->
\* 403 with the fixed message "Access denied", ResourceNotFoundException -> 404,
\* RateLimitExceededException -> 429, any other exception -> 500 with a generic
\* message that is not the exception's; every such response has success = false
\* and a correlationId.
C16_ExceptionMapping ==
    Handled =>
        /\ resp.success = FALSE
        /\ resp.correlationId
        /\ CASE thrown.kind = "MethodArgumentNotValidException" ->
                    /\ resp.status = 400
                    /\ resp.data = [kind |-> "errors", errors |-> thrown.errors]
              [] thrown.kind = "UnauthorizedException" -> resp.status = 401
              [] thrown.kind \in {"ForbiddenException", "AccessDeniedException"} ->
                    resp.status = 403 /\ resp.message = "Access denied"
              [] thrown.kind = "ResourceNotFoundException" -> resp.status = 404
              [] thrown.kind = "RateLimitExceededException" -> resp.status = 429
              [] OTHER ->
                    /\ resp.status = 500
                    /\ resp.message # thrown.message
                    /\ resp.message = handleGenericException.message
                    /\ resp.data = NoData

\* a ForbiddenException with a message of its own has been answered
C16_Witness ==
    /\ Handled
    /\ thrown.kind = "ForbiddenException"
    /\ thrown.message = "Product not found with id: 7"
    /\ resp.status = 403

\* C17: in every reachable state, including states reached by concurrently
\* executing Register requests, no two accounts have the same email.
C17_EmailUnique ==
    \A i, j \in DOMAIN users : users[i].email = users[j].email => i = j

\* of two Registers of one email that both read the email as free, one has
\* committed and the other has been refused by the unique index
C17_Witness ==
    /\ req.op = "register"
    /\ cause = "uniqueIndex"
    /\ resp.status = 500
    /\ \E id \in DOMAIN users : users[id].email = req.email

\* C20: accountLocked changes from true to false only through the explicit
\* unlock operation: in every execution, also when Logins on the same account
\* interleave with each other and with the locking of the account, no Login
\* clears the lock.
C20_OnlyUnlockClearsLock ==
    \A id \in DOMAIN pre.users :
        (pre.users[id].accountLocked /\ ~users[id].accountLocked) =>
            req.op = "unlockAccount"

\* a correct-password Login that had loaded the account before it was locked has
\* committed and has been answered 200, and the account is still locked
C20_Witness ==
    /\ req.op = "login"
    /\ resp.status = 200
    /\ \E id \in DOMAIN users :
            /\ users[id].email = req.email
            /\ pre.users[id].accountLocked
            /\ users[id].accountLocked

\* the last request was a Login with the matching password for account id, which
\* was unlocked
CorrectLoginOnUnlocked(id) ==
    /\ LoginRan
    /\ id \in findByEmail(pre.users, req.email)
    /\ ~pre.users[id].accountLocked
    /\ matches(req.password, pre.users[id].passwordHash)

\* C21: a Login with the correct password against an unlocked account with any
\* failedLoginAttempts in 0..4 succeeds, returns an access and a refresh token
\* of the account, and leaves the account unlocked with failedLoginAttempts = 0.
C21_SuccessfulLoginResets ==
    \A id \in DOMAIN pre.users :
        (CorrectLoginOnUnlocked(id)
            /\ pre.users[id].failedLoginAttempts \in 0..(LockThreshold - 1)) =>
            /\ resp.status = 200
            /\ resp.success
            /\ resp.data.accessToken.type = "access"
            /\ resp.data.accessToken.userId = id
            /\ resp.data.refreshToken.type = "refresh"
            /\ resp.data.refreshToken.userId = id
            /\ ~users[id].accountLocked
            /\ users[id].failedLoginAttempts = 0
            /\ \A other \in DOMAIN users \ {id} : users[other] = pre.users[other]

\* a Login with the correct password has succeeded on an account that had 4
\* failed attempts stored, and the stored counter is 0
C21_Witness ==
    \E id \in DOMAIN pre.users :
        /\ CorrectLoginOnUnlocked(id)
        /\ pre.users[id].failedLoginAttempts = LockThreshold - 1
        /\ resp.status = 200
        /\ users[id].failedLoginAttempts = 0

\* the table after k Logins in a row with email e and password p, each in its
\* own transaction
RECURSIVE AfterLogins(_, _, _, _)
AfterLogins(db, e, p, k) ==
    IF k = 0 THEN db
    ELSE AfterLogins(
            Transactional(db, LoginUseCase_execute(db, [email |-> e, password |-> p],
                                                   SigningKeyOk(secretKeyBytes))),
            e, p, k - 1)

\* the explicit unlock operation has just been applied to account id, which was
\* locked
UnlockedJustNow(id) ==
    /\ req.op = "unlockAccount"
    /\ id \in DOMAIN pre.users
    /\ pre.users[id].email = req.email
    /\ pre.users[id].accountLocked

\* C22: the explicit unlock operation on a locked account sets accountLocked to
\* false and failedLoginAttempts to 0 in one step; after it a Login with the
\* correct password succeeds, fewer than 5 wrong-password Logins leave the
\* account unlocked and the 5th locks it again.
C22_UnlockRestartsCount ==
    \A id \in DOMAIN users :
        UnlockedJustNow(id) =>
            /\ ~users[id].accountLocked
            /\ users[id].failedLoginAttempts = 0
            /\ \A b \in ValidLoginBodies :
                    (b[1] = req.email /\ matches(b[2], users[id].passwordHash)) =>
                        LoginResponse(users, b).status = 200
            /\ \A b \in ValidLoginBodies :
                    (b[1] = req.email /\ ~matches(b[2], users[id].passwordHash)) =>
                        /\ \A k \in 1..(LockThreshold - 1) :
                                ~AfterLogins(users, b[1], b[2], k)[id].accountLocked
                        /\ AfterLogins(users, b[1], b[2], LockThreshold)[id].accountLocked

\* C23: of two Register requests for one not yet registered email that run
\* concurrently, one creates the account and the other fails with the "email
\* already registered" error of a sequential duplicate: every Register that is
\* answered while a committed account holds its email gets 401 with "Email
\* already registered" and writes nothing, and no email has two accounts.
C23_RaceLoserGetsConflict ==
    /\ (RegisterRan /\ existsByEmail(pre.users, req.email)) =>
            /\ resp = handleUnauthorized(MsgEmailRegistered)
            /\ users = pre.users
    /\ \A e \in Emails : Cardinality(findByEmail(users, e)) <= 1

\* the last request answered was the second of two wrong-password Logins on one
\* account that ran concurrently (the second had loaded the account before the
\* first was answered) and read the same failedLoginAttempts
RacedFailures ==
    /\ req.op = "login"
    /\ cause = "badPassword"
    /\ failures.raced

\* C24: counter race: when two concurrent wrong-password Logins on the same
\* unlocked account both read the same pre-increment failedLoginAttempts, the
\* final stored counter is one less than the number of failed attempts made
\* (the value read plus one, for two attempts).
C24_RaceUndercountsByOne ==
    RacedFailures =>
        \A id \in findByEmail(users, req.email) :
            users[id].failedLoginAttempts = failures.read + 2 - 1

\* the last exchange ran the filter, alone or in the chain of a request, which
\* enters the filter with an empty SecurityContext
FilterRan == exchange.op \in {"filter", "request"}
ContextAtEntry == IF exchange.op = "filter" THEN exchange.context ELSE Anonymous

\* C25: the filter establishes an identity only for a request whose
\* Authorization header starts with "Bearer " and whose token has a valid
\* signature and is not expired (the time is before issue time plus lifetime);
\* for a missing or non-Bearer header or a malformed, wrongly signed or expired
\* token the request continues with no identity; an identity already in the
\* security context is never replaced.
C25_IdentityOnlyFromValidBearer ==
    FilterRan =>
        /\ ContextAtEntry.authenticated =>
                exchange.result.authentication = ContextAtEntry
        /\ (~ContextAtEntry.authenticated /\ exchange.result.authentication.authenticated) =>
                /\ exchange.credential = "asIssued"
                /\ clock < jwt.issuedAt + jwt.lifetime

\* C26: fail-open filter: for every request, whatever its Authorization header,
\* the filter hands the request to the rest of the chain exactly once and ends
\* without an exception; no request is answered 500 by the chain, and a request
\* to a public endpoint is served whatever bearer token it carries.
C26_FilterFailsOpen ==
    FilterRan =>
        /\ exchange.result.doFilter = 1
        /\ exchange.result.threw = "none"
        /\ exchange.op = "request" =>
                /\ exchange.result.status # 500
                /\ PublicRequest(exchange.method, exchange.path) =>
                        exchange.result.reached /\ exchange.result.status = 0

\* POST /api/auth/login has been served to a request that carried an access
\* token after its expiry, as an anonymous request
C26_Witness ==
    /\ RequestWith("asIssued")
    /\ jwt.type = "access"
    /\ clock > jwt.issuedAt + jwt.lifetime
    /\ exchange.method = "POST"
    /\ exchange.path = <<"api", "auth", "login">>
    /\ exchange.result.doFilter = 1
    /\ exchange.result.reached
    /\ ~exchange.result.authentication.authenticated

\* C27: counter invariant: in every reachable state, after any sequence or
\* interleaving of Register, Login, lockAccount and unlockAccount, every account
\* has 0 <= failedLoginAttempts <= 5, and failedLoginAttempts >= 5 implies
\* accountLocked.
C27_CounterInvariant ==
    \A id \in DOMAIN users :
        /\ users[id].failedLoginAttempts \in 0..LockThreshold
        /\ users[id].failedLoginAttempts >= LockThreshold => users[id].accountLocked

\* two wrong-password Logins have raced on an unlocked account and both have
\* been answered; the account is unlocked, its counter below the threshold
C27_Witness ==
    /\ RacedFailures
    /\ \E id \in findByEmail(users, req.email) :
            /\ ~pre.users[id].accountLocked
            /\ ~users[id].accountLocked
            /\ users[id].failedLoginAttempts < LockThreshold

\* C28: brute-force bound: for any account at most 5 wrong passwords are
\* verified against the stored hash between two resets of the counter
\* (successful Login or explicit unlock): a Login whose password was compared
\* with the hash and did not match is at most the 5th such Login since the
\* account was created, logged in to or unlocked.
C28_BruteForceBound ==
    \A e \in Emails :
        (LoginRan /\ req.email = e /\ cause = "badPassword" /\ pre.run[e] >= 0) =>
            run[e] <= LockThreshold

\* C29: the role field of a successful Login response equals the role of the
\* authenticated account and the role claim of the access token returned in the
\* same response, for accounts of role USER and of role ADMIN.
C29_ResponseRoleIsAccountRole ==
    (LoginRan /\ resp.success) =>
        \A id \in findByEmail(pre.users, req.email) :
            /\ resp.data.role = pre.users[id].role
            /\ resp.data.role = resp.data.accessToken.role

\* C30: frame of Login, lockAccount and unlockAccount: they change at most
\* failedLoginAttempts and accountLocked of the one account addressed; they
\* create and delete no account and change no account's id, email, passwordHash
\* or role; a Login for an unknown email changes nothing; an account created by
\* Register has role USER in every later state.
C30_Frame ==
    /\ req.op \in {"login", "lockAccount", "unlockAccount"} =>
            /\ DOMAIN users = DOMAIN pre.users
            /\ \A id \in DOMAIN users :
                    /\ users[id].id = pre.users[id].id
                    /\ users[id].email = pre.users[id].email
                    /\ users[id].passwordHash = pre.users[id].passwordHash
                    /\ users[id].role = pre.users[id].role
                    /\ pre.users[id].email # req.email => users[id] = pre.users[id]
            /\ (req.op = "login" /\ findByEmail(pre.users, req.email) = {}) =>
                    users = pre.users
    /\ \A id \in DOMAIN users : users[id].email \in completed => users[id].role = "USER"

\* lockAccount has locked one of two accounts and left the other, which is
\* unlocked, as it was
C30_Witness ==
    /\ req.op = "lockAccount"
    /\ \E id, other \in DOMAIN users :
            /\ id # other
            /\ users[id].email = req.email
            /\ users[id].accountLocked
            /\ ~pre.users[id].accountLocked
            /\ ~users[other].accountLocked
            /\ users[other].role = "USER"

====
